---- MODULE Spec2Model ----
(***************************************************************************)
(* Model of package weave of iameggi/cassie: the one-shot fan-out-join     *)
(* Sail (src/weave/sail.go:27-73) and the bounded worker pool Weaver       *)
(* (src/weave/sail.go:95-232).  Every goroutine of the Go code is a        *)
(* process of the model; every action is one scheduling step between two   *)
(* synchronisation points (channel operation, WaitGroup operation, atomic  *)
(* load / compare-and-swap, sync.Once).                                    *)
(***************************************************************************)
EXTENDS Integers, Sequences, FiniteSets, TLC

\* ---------------------------------------------------------------- bounds
MaxTasks == 3        \* longest task list handed to Sail
MaxConc == 2         \* largest concurrency handed to NewWeaver
MaxAdds == 2         \* Add calls made on one Weaver
MaxLimit == 2        \* largest maxConcurrency handed to NewLimiter
MaxReqs == 3         \* requests sent through one Limiter

\* ------------------------------------------------------- errors and tasks
\* An error value is a pair <<text, payload>>; Nil is Go's nil error.
Nil == <<"nil", 0>>
\* context.Canceled, the value ctx.Err() has once ctx.Done() is closed.
Canceled == <<"context canceled", 0>>
\* The error value a task returns (an errors.New value in the tests); every
\* task has an error value of its own, v identifies the task.
TaskErr(v) == <<"task failed", v>>
\* fmt.Errorf("panic recovered: %v", r)
PanicErr(r) == <<"panic recovered: ", r>>

\* A Task is opaque to the orchestrator: it returns nil, returns an error,
\* panics, or blocks until its ctx is done and then returns nil (the task of
\* TestSail_ContextCancel and TestWeaver_ContextCancel).  A task body takes
\* any time to return: a task that blocks on something other than its ctx
\* is a task of kind "ok", "err" or "panic" that stays in its body.
Tasks == {"ok", "err", "panic", "wait"}
\* The tasks handed to a Weaver.
PoolTasks == {"ok", "err", "panic"}

\* The failure the body of task number v hands to sendErr when it is a task
\* of kind t: its own error, or the error made of its panic payload (the
\* payload of task v is v).  Nil when it succeeded.
Outcome(t, v) ==
  IF t = "err" THEN TaskErr(v)
  ELSE IF t = "panic" THEN PanicErr(v)
  ELSE Nil

RECURSIVE SeqsUpTo(_, _)
SeqsUpTo(S, n) ==
  IF n = 0 THEN {<<>>}
  ELSE SeqsUpTo(S, n - 1) \cup [1..n -> S]

\* ------------------------------------------------------------------ state
VARIABLES
  \* ---- Sail (one call)
  tasks,          \* the tasks ...Task argument
  sail_ctxDone,   \* ctx.Done() of the ctx argument is closed
  sail_pc,        \* position of the Sail caller
  sail_i,         \* index of the range loop at line 40
  sail_wg,        \* wg counter
  sail_errChan,   \* errChan: [buf, closed], capacity 1
  sail_once,      \* once has fired
  sail_taskPc,    \* position of each task goroutine
  sail_runs,      \* how many times each task body was entered
  sail_closerPc,  \* position of the goroutine of lines 62-65
  sail_result,    \* the value Sail returned
  sail_sent,      \* history: the values written to errChan, in order
  sail_ctxAtCall, \* history: ctx was already cancelled when Sail was called
  sail_ctxAtSend, \* history: ctx was cancelled when errChan was written
  sail_slotAtSelect, \* history: buffer of errChan when the select resolved
  \* ---- Weaver (one pool)
  concurrency,    \* the concurrency argument of NewWeaver
  weaver,         \* "uncalled", or what NewWeaver returned: "nil" / "live"
  newErr,         \* the error NewWeaver returned
  ctxDone,        \* the ctx argument of NewWeaver is cancelled
  cancelled,      \* w.cancel() has been called
  wg,             \* w.wg counter
  errOnce,        \* w.errOnce has fired
  errChan,        \* w.errChan: [buf, closed], capacity 1
  taskQueue,      \* w.taskQueue: [buf, closed], capacity concurrency
  isClosed,       \* w.isClosed
  finalErr,       \* w.finalErr
  workersIdle,    \* number of workers blocked in the select of line 137
  workerPc,       \* by task number: position of the worker that took the
                  \* task from the queue ("none": no worker holds it)
  kinds,          \* the tasks handed to Add so far, by task number
  addPc,          \* position of each Add caller
  addTask,        \* the task number an Add caller is submitting
  addResult,      \* what Add returned for each task ("pending" before)
  addAfterWait,   \* history: a Wait call had returned when Add was called
  runs,           \* how many times each task body was entered
  waitPc,         \* position of each Wait caller
  waitVal,        \* the value a Wait caller is about to return
  waitRets,       \* history: <<path, value>> of every Wait call that returned
  errSent,        \* history: the values written to w.errChan, in order
  \* ---- Limiter (one limiter, wrapped around one handler)
  maxConcurrency, \* the maxConcurrency argument of NewLimiter
  limiter,        \* "uncalled", or how NewLimiter ended: "live" / "panicked"
  semaphore,      \* number of values buffered in l.semaphore
  reqPc           \* position of each request in the wrapped handler

sailHist == <<sail_sent, sail_ctxAtCall, sail_ctxAtSend, sail_slotAtSelect>>

sailVars == <<tasks, sail_ctxDone, sail_pc, sail_i, sail_wg, sail_errChan,
              sail_once, sail_taskPc, sail_runs, sail_closerPc, sail_result,
              sailHist>>

weaverVars == <<concurrency, weaver, newErr, ctxDone, cancelled, wg,
                errOnce, errChan, taskQueue, isClosed, finalErr,
                workersIdle, workerPc, kinds, addPc, addTask, addResult,
                addAfterWait, runs, waitPc, waitVal, waitRets, errSent>>

limiterVars == <<maxConcurrency, limiter, semaphore, reqPc>>

vars == <<sailVars, weaverVars, limiterVars>>

ErrChanCap == 1

\* The goroutines that call Add and Wait.  The workers are anonymous: a
\* worker is either blocked in its select or holds the task it took.
Adders == {1}
Waiters == {1, 2}

\* The Weaver variables before NewWeaver is called.
WeaverFresh ==
  /\ weaver = "uncalled"
  /\ newErr = Nil
  /\ ctxDone = FALSE
  /\ cancelled = FALSE
  /\ wg = 0
  /\ errOnce = FALSE
  /\ errChan = [buf |-> <<>>, closed |-> FALSE]
  /\ taskQueue = [buf |-> <<>>, closed |-> FALSE]
  /\ isClosed = FALSE
  /\ finalErr = Nil
  /\ workersIdle = 0
  /\ workerPc = <<>>
  /\ kinds = <<>>
  /\ addPc = [a \in Adders |-> "idle"]
  /\ addTask = [a \in Adders |-> 0]
  /\ addResult = <<>>
  /\ addAfterWait = <<>>
  /\ runs = <<>>
  /\ waitPc = [c \in Waiters |-> "idle"]
  /\ waitVal = [c \in Waiters |-> Nil]
  /\ waitRets = {}
  /\ errSent = <<>>

\* The Weaver variables while only a Sail call is looked at: no pool.
WeaverUnused ==
  /\ concurrency = 0
  /\ WeaverFresh

\* The requests served through the handler Wrap returns.
Requests == 1..MaxReqs

\* The Limiter variables while no Limiter is looked at.
LimiterUnused ==
  /\ maxConcurrency = 0
  /\ limiter = "uncalled"
  /\ semaphore = 0
  /\ reqPc = [r \in Requests |-> "idle"]

\* The Sail variables while only a Weaver is looked at: no call.
SailUnused ==
  /\ tasks = <<>>
  /\ sail_ctxDone = FALSE
  /\ sail_pc = "uncalled"
  /\ sail_i = 1
  /\ sail_wg = 0
  /\ sail_errChan = [buf |-> <<>>, closed |-> FALSE]
  /\ sail_once = FALSE
  /\ sail_taskPc = <<>>
  /\ sail_runs = <<>>
  /\ sail_closerPc = "none"
  /\ sail_result = Nil
  /\ sail_sent = <<>>
  /\ sail_ctxAtCall = FALSE
  /\ sail_ctxAtSend = FALSE
  /\ sail_slotAtSelect = <<>>

\* ------------------------------------------------------------------- Sail
\* Lines 27-38: the state of a call right before the range loop.  The
\* context may already be cancelled by the caller.
SailInit ==
  /\ tasks \in SeqsUpTo(Tasks, MaxTasks)
  /\ sail_ctxDone \in BOOLEAN
  /\ sail_pc = "loop"
  /\ sail_i = 1
  /\ sail_wg = Len(tasks)
  /\ sail_errChan = [buf |-> <<>>, closed |-> FALSE]
  /\ sail_once = FALSE
  /\ sail_taskPc = [k \in 1..Len(tasks) |-> "none"]
  /\ sail_runs = [k \in 1..Len(tasks) |-> 0]
  /\ sail_closerPc = "none"
  /\ sail_result = Nil
  /\ sail_sent = <<>>
  /\ sail_ctxAtCall = sail_ctxDone
  /\ sail_ctxAtSend = FALSE
  /\ sail_slotAtSelect = <<>>
  /\ WeaverUnused
  /\ LimiterUnused

\* The owner of ctx cancels it (any time, also after Sail returned).
SailCancel ==
  /\ ~sail_ctxDone
  /\ sail_ctxDone' = TRUE
  /\ UNCHANGED <<tasks, sail_pc, sail_i, sail_wg, sail_errChan, sail_once,
                 sail_taskPc, sail_runs, sail_closerPc, sail_result, sailHist,
                 weaverVars, limiterVars>>

\* Lines 40-45: ctx.Err() != nil: wg.Done() and continue.
SailSkip ==
  /\ sail_pc = "loop"
  /\ sail_i <= Len(tasks)
  /\ sail_ctxDone
  /\ sail_wg' = sail_wg - 1
  /\ sail_taskPc' = [sail_taskPc EXCEPT ![sail_i] = "skipped"]
  /\ sail_i' = sail_i + 1
  /\ UNCHANGED <<tasks, sail_ctxDone, sail_pc, sail_errChan, sail_once,
                 sail_runs, sail_closerPc, sail_result, sailHist, weaverVars,
                 limiterVars>>

\* Lines 40-47, 58: ctx.Err() == nil: go func(t Task){...}(task).
SailDispatch ==
  /\ sail_pc = "loop"
  /\ sail_i <= Len(tasks)
  /\ ~sail_ctxDone
  /\ sail_taskPc' = [sail_taskPc EXCEPT ![sail_i] = "spawned"]
  /\ sail_i' = sail_i + 1
  /\ UNCHANGED <<tasks, sail_ctxDone, sail_pc, sail_wg, sail_errChan,
                 sail_once, sail_runs, sail_closerPc, sail_result, sailHist,
                 weaverVars, limiterVars>>

\* Lines 59-65: the loop is over; go func(){ wg.Wait(); close(errChan) }().
SailSpawnCloser ==
  /\ sail_pc = "loop"
  /\ sail_i > Len(tasks)
  /\ sail_pc' = "select"
  /\ sail_closerPc' = "waiting"
  /\ UNCHANGED <<tasks, sail_ctxDone, sail_i, sail_wg, sail_errChan, sail_once,
                 sail_taskPc, sail_runs, sail_result, sailHist, weaverVars,
                 limiterVars>>

\* Line 55: the goroutine is scheduled and enters t(ctx).
SailTaskStart(k) ==
  /\ sail_taskPc[k] = "spawned"
  /\ sail_taskPc' = [sail_taskPc EXCEPT ![k] = "running"]
  /\ sail_runs' = [sail_runs EXCEPT ![k] = @ + 1]
  /\ UNCHANGED <<tasks, sail_ctxDone, sail_pc, sail_i, sail_wg, sail_errChan,
                 sail_once, sail_closerPc, sail_result, sailHist, weaverVars,
                 limiterVars>>

\* Variant of SailAfterBody: the returned error is not looked at.
SailAfterBody_IgnoreErr(t) ==
  IF t = "panic" THEN "sendErr" ELSE "exit"

\* Variant of SailAfterBody: no recover(), the panic leaves the goroutine.
SailAfterBody_NoRecover(t) ==
  IF t = "err" THEN "sendErr"
  ELSE IF t = "panic" THEN "crashed" ELSE "exit"

\* Lines 49-57: where the goroutine goes when t(ctx) is over.  A nil
\* return goes straight to the deferred wg.Done(); an error goes to
\* sendErr(err) at line 56; a panic unwinds into the deferred function of
\* lines 49-53, where recover() stops it and sendErr is called at line 51.
SailAfterBody(t) ==
  IF t \in {"err", "panic"} THEN "sendErr" ELSE "exit"

\* Lines 49-57: t(ctx) returns or panics.
SailTaskFinish(k) ==
  /\ sail_taskPc[k] = "running"
  /\ tasks[k] = "wait" => sail_ctxDone
  /\ sail_taskPc' = [sail_taskPc EXCEPT ![k] = SailAfterBody(tasks[k])]
  /\ UNCHANGED <<tasks, sail_ctxDone, sail_pc, sail_i, sail_wg, sail_errChan,
                 sail_once, sail_runs, sail_closerPc, sail_result, sailHist,
                 weaverVars, limiterVars>>

\* Lines 34-38: sendErr: once.Do(func(){ errChan <- err }).  The send
\* blocks while the buffer is full and panics on a closed channel; once
\* counts as fired also when its function panics.  A panic of the call at
\* line 56 is recovered at line 50, whose sendErr is then a no-op; a panic
\* of the call at line 51 is raised inside the deferred function and
\* leaves the goroutine.
SailSendErr(k) ==
  /\ sail_taskPc[k] = "sendErr"
  /\ IF sail_once
       THEN /\ sail_taskPc' = [sail_taskPc EXCEPT ![k] = "exit"]
            /\ UNCHANGED <<sail_once, sail_errChan, sail_sent, sail_ctxAtSend>>
       ELSE IF sail_errChan.closed
         THEN /\ sail_taskPc' = [sail_taskPc EXCEPT ![k] =
                     IF tasks[k] = "err" THEN "exit" ELSE "crashed"]
              /\ sail_once' = TRUE
              /\ UNCHANGED <<sail_errChan, sail_sent, sail_ctxAtSend>>
         ELSE /\ Len(sail_errChan.buf) < ErrChanCap
              /\ sail_once' = TRUE
              /\ sail_errChan' = [sail_errChan EXCEPT
                                    !.buf = Append(@, Outcome(tasks[k], k))]
              /\ sail_sent' = Append(sail_sent, Outcome(tasks[k], k))
              /\ sail_ctxAtSend' = sail_ctxDone
              /\ sail_taskPc' = [sail_taskPc EXCEPT ![k] = "exit"]
  /\ UNCHANGED <<tasks, sail_ctxDone, sail_pc, sail_i, sail_wg, sail_runs,
                 sail_closerPc, sail_result, sail_ctxAtCall, sail_slotAtSelect,
                 weaverVars, limiterVars>>

\* Line 48: the deferred wg.Done().
SailTaskDone(k) ==
  /\ sail_taskPc[k] = "exit"
  /\ sail_taskPc' = [sail_taskPc EXCEPT ![k] = "done"]
  /\ sail_wg' = sail_wg - 1
  /\ UNCHANGED <<tasks, sail_ctxDone, sail_pc, sail_i, sail_errChan, sail_once,
                 sail_runs, sail_closerPc, sail_result, sailHist, weaverVars,
                 limiterVars>>

\* Variant of SailCloserClose: errChan is closed without wg.Wait().
SailCloserClose_NoWait ==
  /\ sail_closerPc = "waiting"
  /\ sail_closerPc' = "done"
  /\ sail_errChan' = [sail_errChan EXCEPT !.closed = TRUE]
  /\ UNCHANGED <<tasks, sail_ctxDone, sail_pc, sail_i, sail_wg, sail_once,
                 sail_taskPc, sail_runs, sail_result, sailHist, weaverVars,
                 limiterVars>>

\* Lines 63-64: wg.Wait() returns when the counter is zero; close(errChan).
SailCloserClose ==
  /\ sail_closerPc = "waiting"
  /\ sail_wg = 0
  /\ sail_closerPc' = "done"
  /\ sail_errChan' = [sail_errChan EXCEPT !.closed = TRUE]
  /\ UNCHANGED <<tasks, sail_ctxDone, sail_pc, sail_i, sail_wg, sail_once,
                 sail_taskPc, sail_runs, sail_result, sailHist, weaverVars,
                 limiterVars>>

\* Variant of SailSelectErr: Sail reads errChan only once the goroutine of
\* lines 62-65 has closed it, that is when every task is over.
SailSelectErr_WaitsForClose ==
  /\ sail_pc = "select"
  /\ sail_errChan.closed
  /\ sail_result' = IF sail_errChan.buf # <<>> THEN Head(sail_errChan.buf)
                    ELSE Nil
  /\ sail_errChan' = [sail_errChan EXCEPT
                        !.buf = IF @ # <<>> THEN Tail(@) ELSE @]
  /\ sail_pc' = "returned"
  /\ sail_slotAtSelect' = sail_errChan.buf
  /\ UNCHANGED <<tasks, sail_ctxDone, sail_i, sail_wg, sail_once, sail_taskPc,
                 sail_runs, sail_closerPc, sail_sent, sail_ctxAtCall,
                 sail_ctxAtSend, weaverVars, limiterVars>>

\* Lines 68-69: case err := <-errChan: a buffered value, or the zero value
\* (nil) of a closed and empty channel.
SailSelectErr ==
  /\ sail_pc = "select"
  /\ \/ sail_errChan.buf # <<>>
     \/ sail_errChan.closed
  /\ sail_result' = IF sail_errChan.buf # <<>> THEN Head(sail_errChan.buf)
                    ELSE Nil
  /\ sail_errChan' = [sail_errChan EXCEPT
                        !.buf = IF @ # <<>> THEN Tail(@) ELSE @]
  /\ sail_pc' = "returned"
  /\ sail_slotAtSelect' = sail_errChan.buf
  /\ UNCHANGED <<tasks, sail_ctxDone, sail_i, sail_wg, sail_once, sail_taskPc,
                 sail_runs, sail_closerPc, sail_sent, sail_ctxAtCall,
                 sail_ctxAtSend, weaverVars, limiterVars>>

\* Lines 70-71: case <-ctx.Done(): return ctx.Err().  When both cases are
\* ready the Go runtime picks one of them at random.
SailSelectCtx ==
  /\ sail_pc = "select"
  /\ sail_ctxDone
  /\ sail_result' = Canceled
  /\ sail_pc' = "returned"
  /\ sail_slotAtSelect' = sail_errChan.buf
  /\ UNCHANGED <<tasks, sail_ctxDone, sail_i, sail_wg, sail_errChan, sail_once,
                 sail_taskPc, sail_runs, sail_closerPc, sail_sent,
                 sail_ctxAtCall, sail_ctxAtSend, weaverVars, limiterVars>>

SailNext ==
  \/ SailCancel
  \/ SailSkip
  \/ SailDispatch
  \/ SailSpawnCloser
  \/ \E k \in 1..Len(tasks) : SailTaskStart(k)
  \/ \E k \in 1..Len(tasks) : SailTaskFinish(k)
  \/ \E k \in 1..Len(tasks) : SailSendErr(k)
  \/ \E k \in 1..Len(tasks) : SailTaskDone(k)
  \/ SailCloserClose
  \/ SailSelectErr
  \/ SailSelectCtx

SailSpec == SailInit /\ [][SailNext]_vars

\* The Go scheduler runs every goroutine that can take a step: the loop of
\* Sail, the task goroutines, the goroutine of lines 62-65, and the select
\* of line 67 once one of its cases is ready.  Cancelling ctx is up to its
\* owner: no fairness.  A task body returns (SailTaskFinish) when its kind
\* lets it: a "wait" body only once ctx is cancelled.
SailFairness ==
  /\ WF_vars(SailSkip)
  /\ WF_vars(SailDispatch)
  /\ WF_vars(SailSpawnCloser)
  /\ \A k \in 1..MaxTasks : WF_vars(k <= Len(tasks) /\ SailTaskStart(k))
  /\ \A k \in 1..MaxTasks : WF_vars(k <= Len(tasks) /\ SailTaskFinish(k))
  /\ \A k \in 1..MaxTasks : WF_vars(k <= Len(tasks) /\ SailSendErr(k))
  /\ \A k \in 1..MaxTasks : WF_vars(k <= Len(tasks) /\ SailTaskDone(k))
  /\ WF_vars(SailCloserClose)
  /\ WF_vars(SailSelectErr \/ SailSelectCtx)

\* The Sail calls looked at under fairness are those of at most
\* MaxTasks - 1 tasks.
SailFairInit == SailInit /\ Len(tasks) < MaxTasks

SailFairSpec == SailFairInit /\ [][SailNext]_vars /\ SailFairness

\* ----------------------------------------------------------------- Weaver
\* Line 112: errors.New("weave: concurrency must be greater than 0")
ConfigErr == <<"weave: concurrency must be greater than 0", 0>>
\* Line 184: errors.New("weave: weaver is closed")
ClosedErr == <<"weave: weaver is closed", 0>>
\* Line 180: errors.New("weave: cannot add task to closed weaver")
ClosedPanicErr == <<"weave: cannot add task to closed weaver", 0>>
\* Line 214: fmt.Errorf("weaver: wait panic: %v", r)
WaitPanicErr == <<"weaver: wait panic: ", 0>>
\* Add has not returned yet.
Pending == <<"pending", 0>>

MinConc == -1

\* Line 115: workerCtx is done when the parent is done or cancel was called.
WorkerCtxIsDone == ctxDone \/ cancelled

\* The tasks whose body is being executed by a worker (line 161), and the
\* tasks whose body has returned or panicked.
Executing == {n \in 1..Len(kinds) : workerPc[n] = "running"}
Finished == {n \in 1..Len(kinds) : runs[n] > 0 /\ n \notin Executing}

\* Variant of TaskQueueCap: the queue has room for one task more.
TaskQueueCap_OneMore(c) == c + 1

\* Line 118: make(chan Task, concurrency)
TaskQueueCap(c) == c

\* Variant of WorkersStarted: the loop of line 124 runs once too often.
WorkersStarted_OneMore(c) == c + 1

\* Lines 123-126: the number of workers started for concurrency c.
WorkersStarted(c) == c

Init ==
  /\ SailUnused
  /\ LimiterUnused
  /\ concurrency \in MinConc..MaxConc
  /\ WeaverFresh

\* Lines 110-129: NewWeaver(ctx, concurrency).
NewWeaver ==
  /\ weaver = "uncalled"
  /\ IF concurrency <= 0
       THEN /\ weaver' = "nil"
            /\ newErr' = ConfigErr
            /\ UNCHANGED <<wg, workersIdle>>
       ELSE /\ weaver' = "live"
            /\ newErr' = Nil
            /\ wg' = concurrency
            /\ workersIdle' = WorkersStarted(concurrency)
  /\ UNCHANGED <<concurrency, ctxDone, cancelled, errOnce, errChan, taskQueue,
                 isClosed, finalErr, workerPc, kinds, addPc, addTask,
                 addResult, addAfterWait, runs, waitPc, waitVal, waitRets,
                 errSent, sailVars, limiterVars>>

\* The owner of the parent ctx cancels it.
WeaverCancel ==
  /\ ~ctxDone
  /\ ctxDone' = TRUE
  /\ UNCHANGED <<concurrency, weaver, newErr, cancelled, wg, errOnce, errChan,
                 taskQueue, isClosed, finalErr, workersIdle, workerPc, kinds,
                 addPc, addTask, addResult, addAfterWait, runs, waitPc,
                 waitVal, waitRets, errSent, sailVars, limiterVars>>

\* Lines 137-142: case task, ok := <-w.taskQueue with a buffered task: one
\* of the workers blocked in the select takes the head of the queue.
WorkerRecv ==
  /\ workersIdle > 0
  /\ taskQueue.buf # <<>>
  /\ workersIdle' = workersIdle - 1
  /\ workerPc' = [workerPc EXCEPT ![Head(taskQueue.buf)] = "execute"]
  /\ taskQueue' = [taskQueue EXCEPT !.buf = Tail(@)]
  /\ UNCHANGED <<concurrency, weaver, newErr, ctxDone, cancelled, wg, errOnce,
                 errChan, isClosed, finalErr, kinds, addPc, addTask, addResult,
                 addAfterWait, runs, waitPc, waitVal, waitRets, errSent,
                 sailVars, limiterVars>>

\* Variant of WorkerQueueClosed: the worker leaves as soon as the queue is
\* closed, whatever is still buffered in it.
WorkerQueueClosed_DropsBuffered ==
  /\ workersIdle > 0
  /\ taskQueue.closed
  /\ workersIdle' = workersIdle - 1
  /\ wg' = wg - 1
  /\ UNCHANGED <<concurrency, weaver, newErr, ctxDone, cancelled, errOnce,
                 errChan, taskQueue, isClosed, finalErr, workerPc, kinds,
                 addPc, addTask, addResult, addAfterWait, runs, waitPc,
                 waitVal, waitRets, errSent, sailVars, limiterVars>>

\* Lines 138-141, 135: the queue is closed and empty: !ok, return, and the
\* deferred w.wg.Done().
WorkerQueueClosed ==
  /\ workersIdle > 0
  /\ taskQueue.buf = <<>>
  /\ taskQueue.closed
  /\ workersIdle' = workersIdle - 1
  /\ wg' = wg - 1
  /\ UNCHANGED <<concurrency, weaver, newErr, ctxDone, cancelled, errOnce,
                 errChan, taskQueue, isClosed, finalErr, workerPc, kinds,
                 addPc, addTask, addResult, addAfterWait, runs, waitPc,
                 waitVal, waitRets, errSent, sailVars, limiterVars>>

\* Lines 143-144, 135: case <-ctx.Done(): return, and the deferred
\* w.wg.Done().  Go picks at random when the queue case is ready too.
WorkerCancelled ==
  /\ workersIdle > 0
  /\ WorkerCtxIsDone
  /\ workersIdle' = workersIdle - 1
  /\ wg' = wg - 1
  /\ UNCHANGED <<concurrency, weaver, newErr, ctxDone, cancelled, errOnce,
                 errChan, taskQueue, isClosed, finalErr, workerPc, kinds,
                 addPc, addTask, addResult, addAfterWait, runs, waitPc,
                 waitVal, waitRets, errSent, sailVars, limiterVars>>

\* Variant of WorkerExecute: execute calls the task without looking at
\* ctx.Err().
WorkerExecute_NoCheck(n) ==
  /\ workerPc[n] = "execute"
  /\ workerPc' = [workerPc EXCEPT ![n] = "running"]
  /\ runs' = [runs EXCEPT ![n] = @ + 1]
  /\ UNCHANGED <<concurrency, weaver, newErr, ctxDone, cancelled, wg, errOnce,
                 errChan, taskQueue, isClosed, finalErr, workersIdle, kinds,
                 addPc, addTask, addResult, addAfterWait, waitPc, waitVal,
                 waitRets, errSent, sailVars, limiterVars>>

\* Lines 152-161: execute, by the worker that took task n: ctx.Err() != nil
\* returns to the loop without calling the task; otherwise the task body is
\* entered.
WorkerExecute(n) ==
  /\ workerPc[n] = "execute"
  /\ IF WorkerCtxIsDone
       THEN /\ workerPc' = [workerPc EXCEPT ![n] = "none"]
            /\ workersIdle' = workersIdle + 1
            /\ UNCHANGED runs
       ELSE /\ workerPc' = [workerPc EXCEPT ![n] = "running"]
            /\ runs' = [runs EXCEPT ![n] = @ + 1]
            /\ UNCHANGED workersIdle
  /\ UNCHANGED <<concurrency, weaver, newErr, ctxDone, cancelled, wg, errOnce,
                 errChan, taskQueue, isClosed, finalErr, kinds, addPc, addTask,
                 addResult, addAfterWait, waitPc, waitVal, waitRets, errSent,
                 sailVars, limiterVars>>

\* Lines 153-163: where the worker goes when task(ctx) is over: back to
\* the loop after a nil return, to w.sendErr(err) at line 162 after an
\* error, to w.sendErr at line 155 after the recover() of line 154.
WorkerAfterBody(t) ==
  IF t \in {"err", "panic"} THEN "sendErr" ELSE "none"

\* Lines 153-163: task(ctx) returns or panics.
WorkerTaskFinish(n) ==
  /\ workerPc[n] = "running"
  /\ kinds[n] = "wait" => WorkerCtxIsDone
  /\ workerPc' = [workerPc EXCEPT ![n] = WorkerAfterBody(kinds[n])]
  /\ workersIdle' =
       IF WorkerAfterBody(kinds[n]) = "none" THEN workersIdle + 1
       ELSE workersIdle
  /\ UNCHANGED <<concurrency, weaver, newErr, ctxDone, cancelled, wg, errOnce,
                 errChan, taskQueue, isClosed, finalErr, kinds, addPc, addTask,
                 addResult, addAfterWait, runs, waitPc, waitVal, waitRets,
                 errSent, sailVars, limiterVars>>

\* Variant of WorkerSendErr: sendErr writes to w.errChan without w.errOnce.
WorkerSendErr_NoOnce(n) ==
  /\ workerPc[n] = "sendErr"
  /\ IF errChan.closed
       THEN /\ workerPc' = [workerPc EXCEPT ![n] =
                 IF kinds[n] = "err" THEN "none" ELSE "crashed"]
            /\ workersIdle' =
                 IF kinds[n] = "err" THEN workersIdle + 1 ELSE workersIdle
            /\ UNCHANGED <<errChan, errSent>>
       ELSE /\ Len(errChan.buf) < ErrChanCap
            /\ errChan' = [errChan EXCEPT !.buf =
                 Append(@, Outcome(kinds[n], n))]
            /\ errSent' = Append(errSent, Outcome(kinds[n], n))
            /\ workerPc' = [workerPc EXCEPT ![n] = "none"]
            /\ workersIdle' = workersIdle + 1
  /\ UNCHANGED <<concurrency, weaver, newErr, ctxDone, cancelled, wg, errOnce,
                 taskQueue, isClosed, finalErr, kinds, addPc, addTask,
                 addResult, addAfterWait, runs, waitPc, waitVal, waitRets,
                 sailVars, limiterVars>>

\* Lines 168-172: sendErr: w.errOnce.Do(func(){ w.errChan <- err }); then
\* execute returns to the worker loop.  On a closed channel the send
\* panics: the call of line 162 is recovered at line 154 (whose sendErr is
\* a no-op, errOnce having fired), the call of line 155 leaves the worker.
WorkerSendErr(n) ==
  /\ workerPc[n] = "sendErr"
  /\ IF errOnce
       THEN /\ workerPc' = [workerPc EXCEPT ![n] = "none"]
            /\ workersIdle' = workersIdle + 1
            /\ UNCHANGED <<errOnce, errChan, errSent>>
       ELSE IF errChan.closed
         THEN /\ workerPc' = [workerPc EXCEPT ![n] =
                   IF kinds[n] = "err" THEN "none" ELSE "crashed"]
              /\ workersIdle' =
                   IF kinds[n] = "err" THEN workersIdle + 1 ELSE workersIdle
              /\ errOnce' = TRUE
              /\ UNCHANGED <<errChan, errSent>>
         ELSE /\ Len(errChan.buf) < ErrChanCap
              /\ errOnce' = TRUE
              /\ errChan' = [errChan EXCEPT !.buf =
                   Append(@, Outcome(kinds[n], n))]
              /\ errSent' = Append(errSent, Outcome(kinds[n], n))
              /\ workerPc' = [workerPc EXCEPT ![n] = "none"]
              /\ workersIdle' = workersIdle + 1
  /\ UNCHANGED <<concurrency, weaver, newErr, ctxDone, cancelled, wg,
                 taskQueue, isClosed, finalErr, kinds, addPc, addTask,
                 addResult, addAfterWait, runs, waitPc, waitVal, waitRets,
                 sailVars, limiterVars>>

\* Variant of AddSeesClosed: Add goes to the send of line 186 without looking
\* at w.isClosed.
AddSeesClosed_Never == FALSE

\* Line 183: w.isClosed.Load()
AddSeesClosed == isClosed

\* Variant of AddRecovered: Add has no deferred recover, the panic of the
\* send on a closed queue reaches the caller of Add.
AddRecovered_None == <<"panic: send on closed channel", 0>>

\* Lines 178-182: the deferred function recovers the panic of line 186 and
\* makes Add return the error of line 180.
AddRecovered == ClosedPanicErr

\* Lines 177-185: Add(task) is called with a new task of kind t; the load of
\* w.isClosed decides between the closed error and the send of line 186.
AddCall(a, t) ==
  /\ weaver = "live"
  /\ addPc[a] = "idle"
  /\ Len(kinds) < MaxAdds
  /\ kinds' = Append(kinds, t)
  /\ runs' = Append(runs, 0)
  /\ workerPc' = Append(workerPc, "none")
  /\ addAfterWait' = Append(addAfterWait, waitRets # {})
  /\ IF AddSeesClosed
       THEN /\ addResult' = Append(addResult, ClosedErr)
            /\ UNCHANGED <<addPc, addTask>>
       ELSE /\ addResult' = Append(addResult, Pending)
            /\ addPc' = [addPc EXCEPT ![a] = "send"]
            /\ addTask' = [addTask EXCEPT ![a] = Len(kinds) + 1]
  /\ UNCHANGED <<concurrency, weaver, newErr, ctxDone, cancelled, wg, errOnce,
                 errChan, taskQueue, isClosed, finalErr, workersIdle, waitPc,
                 waitVal, waitRets, errSent, sailVars, limiterVars>>

\* Variant of AddSend: the send does not wait for room in the queue.
AddSend_NoBlock(a) ==
  /\ addPc[a] = "send"
  /\ IF taskQueue.closed
       THEN /\ addResult' = [addResult EXCEPT ![addTask[a]] = AddRecovered]
            /\ UNCHANGED taskQueue
       ELSE /\ taskQueue' = [taskQueue EXCEPT !.buf = Append(@, addTask[a])]
            /\ addResult' = [addResult EXCEPT ![addTask[a]] = Nil]
  /\ addPc' = [addPc EXCEPT ![a] = "idle"]
  /\ addTask' = [addTask EXCEPT ![a] = 0]
  /\ UNCHANGED <<concurrency, weaver, newErr, ctxDone, cancelled, wg, errOnce,
                 errChan, isClosed, finalErr, workersIdle, workerPc, kinds,
                 addAfterWait, runs, waitPc, waitVal, waitRets, errSent,
                 sailVars, limiterVars>>

\* Lines 178-182, 186-187: w.taskQueue <- task.  The send blocks while the
\* queue is full; on a closed queue (also when it is closed while the send
\* is blocked) it panics and the deferred recover turns the panic into the
\* error of line 180.
AddSend(a) ==
  /\ addPc[a] = "send"
  /\ IF taskQueue.closed
       THEN /\ addResult' = [addResult EXCEPT ![addTask[a]] = AddRecovered]
            /\ UNCHANGED taskQueue
       ELSE /\ Len(taskQueue.buf) < TaskQueueCap(concurrency)
            /\ taskQueue' = [taskQueue EXCEPT !.buf = Append(@, addTask[a])]
            /\ addResult' = [addResult EXCEPT ![addTask[a]] = Nil]
  /\ addPc' = [addPc EXCEPT ![a] = "idle"]
  /\ addTask' = [addTask EXCEPT ![a] = 0]
  /\ UNCHANGED <<concurrency, weaver, newErr, ctxDone, cancelled, wg, errOnce,
                 errChan, isClosed, finalErr, workersIdle, workerPc, kinds,
                 addAfterWait, runs, waitPc, waitVal, waitRets, errSent,
                 sailVars, limiterVars>>

\* Lines 197-202: Wait() is called; the load of w.isClosed decides between
\* the fast path and the compare-and-swap.
WaitCall(c) ==
  /\ weaver = "live"
  /\ waitPc[c] = "idle"
  /\ waitPc' = [waitPc EXCEPT ![c] = IF isClosed THEN "fastRecv" ELSE "cas"]
  /\ UNCHANGED <<concurrency, weaver, newErr, ctxDone, cancelled, wg, errOnce,
                 errChan, taskQueue, isClosed, finalErr, workersIdle, workerPc,
                 kinds, addPc, addTask, addResult, addAfterWait, runs, waitVal,
                 waitRets, errSent, sailVars, limiterVars>>

\* Variant of WaitCas: a plain store of true, which every caller that saw
\* false at line 199 performs.
WaitCas_Store(c) ==
  /\ waitPc[c] = "cas"
  /\ waitPc' = [waitPc EXCEPT ![c] = "closeQueue"]
  /\ isClosed' = TRUE
  /\ UNCHANGED <<concurrency, weaver, newErr, ctxDone, cancelled, wg, errOnce,
                 errChan, taskQueue, finalErr, workersIdle, workerPc, kinds,
                 addPc, addTask, addResult, addAfterWait, runs, waitVal,
                 waitRets, errSent, sailVars, limiterVars>>

\* Line 205: w.isClosed.CompareAndSwap(false, true).
WaitCas(c) ==
  /\ waitPc[c] = "cas"
  /\ IF isClosed
       THEN /\ waitPc' = [waitPc EXCEPT ![c] = "loseRecv"]
            /\ UNCHANGED isClosed
       ELSE /\ waitPc' = [waitPc EXCEPT ![c] = "closeQueue"]
            /\ isClosed' = TRUE
  /\ UNCHANGED <<concurrency, weaver, newErr, ctxDone, cancelled, wg, errOnce,
                 errChan, taskQueue, finalErr, workersIdle, workerPc, kinds,
                 addPc, addTask, addResult, addAfterWait, runs, waitVal,
                 waitRets, errSent, sailVars, limiterVars>>

\* Variant of WaitRecv: the caller does not wait for w.errChan.
WaitRecv_NoBlock(c) ==
  /\ waitPc[c] \in {"fastRecv", "loseRecv"}
  /\ errChan' = [errChan EXCEPT !.buf = IF @ # <<>> THEN Tail(@) ELSE @]
  /\ waitPc' = [waitPc EXCEPT ![c] =
        IF waitPc[c] = "fastRecv" THEN "fastRead" ELSE "loseRead"]
  /\ UNCHANGED <<concurrency, weaver, newErr, ctxDone, cancelled, wg, errOnce,
                 taskQueue, isClosed, finalErr, workersIdle, workerPc, kinds,
                 addPc, addTask, addResult, addAfterWait, runs, waitVal,
                 waitRets, errSent, sailVars, limiterVars>>

\* Lines 200 and 206: <-w.errChan: takes a buffered value, or passes once
\* the channel is closed; blocks otherwise.
WaitRecv(c) ==
  /\ waitPc[c] \in {"fastRecv", "loseRecv"}
  /\ \/ errChan.buf # <<>>
     \/ errChan.closed
  /\ errChan' = [errChan EXCEPT !.buf = IF @ # <<>> THEN Tail(@) ELSE @]
  /\ waitPc' = [waitPc EXCEPT ![c] =
        IF waitPc[c] = "fastRecv" THEN "fastRead" ELSE "loseRead"]
  /\ UNCHANGED <<concurrency, weaver, newErr, ctxDone, cancelled, wg, errOnce,
                 taskQueue, isClosed, finalErr, workersIdle, workerPc, kinds,
                 addPc, addTask, addResult, addAfterWait, runs, waitVal,
                 waitRets, errSent, sailVars, limiterVars>>

\* Lines 201 and 207: return w.finalErr.
WaitReadFinal(c) ==
  /\ waitPc[c] \in {"fastRead", "loseRead"}
  /\ waitRets' = waitRets \cup
        {<<IF waitPc[c] = "fastRead" THEN "fast" ELSE "loser", finalErr>>}
  /\ waitPc' = [waitPc EXCEPT ![c] = "idle"]
  /\ UNCHANGED <<concurrency, weaver, newErr, ctxDone, cancelled, wg, errOnce,
                 errChan, taskQueue, isClosed, finalErr, workersIdle, workerPc,
                 kinds, addPc, addTask, addResult, addAfterWait, runs, waitVal,
                 errSent, sailVars, limiterVars>>

\* Variant of WaitCloseQueue: w.cancel() is called next to
\* close(w.taskQueue), before w.wg.Wait().
WaitCloseQueue_Cancels(c) ==
  /\ waitPc[c] = "closeQueue"
  /\ waitPc' = [waitPc EXCEPT ![c] =
        IF taskQueue.closed THEN "panicked" ELSE "wgWait"]
  /\ cancelled' = TRUE
  /\ finalErr' = IF taskQueue.closed THEN WaitPanicErr ELSE finalErr
  /\ errChan' = [errChan EXCEPT !.closed = @ \/ taskQueue.closed]
  /\ taskQueue' = [taskQueue EXCEPT !.closed = TRUE]
  /\ UNCHANGED <<concurrency, weaver, newErr, ctxDone, wg, errOnce, isClosed,
                 workersIdle, workerPc, kinds, addPc, addTask, addResult,
                 addAfterWait, runs, waitVal, waitRets, errSent, sailVars,
                 limiterVars>>

\* Line 222: close(w.taskQueue).  Closing a closed channel panics; the
\* deferred function of lines 211-220 then cancels, stores the wait-panic
\* error, closes w.errChan and panics again.
WaitCloseQueue(c) ==
  /\ waitPc[c] = "closeQueue"
  /\ IF taskQueue.closed
       THEN /\ waitPc' = [waitPc EXCEPT ![c] = "panicked"]
            /\ cancelled' = TRUE
            /\ finalErr' = WaitPanicErr
            /\ errChan' = [errChan EXCEPT !.closed = TRUE]
            /\ UNCHANGED taskQueue
       ELSE /\ waitPc' = [waitPc EXCEPT ![c] = "wgWait"]
            /\ taskQueue' = [taskQueue EXCEPT !.closed = TRUE]
            /\ UNCHANGED <<cancelled, finalErr, errChan>>
  /\ UNCHANGED <<concurrency, weaver, newErr, ctxDone, wg, errOnce, isClosed,
                 workersIdle, workerPc, kinds, addPc, addTask, addResult,
                 addAfterWait, runs, waitVal, waitRets, errSent, sailVars,
                 limiterVars>>

\* Variant of WaitWg: Wait goes on to its select without w.wg.Wait().
WaitWg_NoWait(c) ==
  /\ waitPc[c] = "wgWait"
  /\ waitPc' = [waitPc EXCEPT ![c] = "select"]
  /\ UNCHANGED <<concurrency, weaver, newErr, ctxDone, cancelled, wg, errOnce,
                 errChan, taskQueue, isClosed, finalErr, workersIdle,
                 workerPc, kinds, addPc, addTask, addResult, addAfterWait,
                 runs, waitVal, waitRets, errSent, sailVars, limiterVars>>

\* Line 223: w.wg.Wait() returns when every worker has called Done.
WaitWg(c) ==
  /\ waitPc[c] = "wgWait"
  /\ wg = 0
  /\ waitPc' = [waitPc EXCEPT ![c] = "select"]
  /\ UNCHANGED <<concurrency, weaver, newErr, ctxDone, cancelled, wg, errOnce,
                 errChan, taskQueue, isClosed, finalErr, workersIdle, workerPc,
                 kinds, addPc, addTask, addResult, addAfterWait, runs, waitVal,
                 waitRets, errSent, sailVars, limiterVars>>

\* Lines 225-231: the non-blocking select stores a buffered failure in
\* w.finalErr (default: leaves it alone), and return w.finalErr fixes the
\* value the call returns before the deferred function runs.
WaitSelect(c) ==
  /\ waitPc[c] = "select"
  /\ IF errChan.buf # <<>>
       THEN /\ finalErr' = Head(errChan.buf)
            /\ errChan' = [errChan EXCEPT !.buf = Tail(@)]
       ELSE /\ finalErr' = IF errChan.closed THEN Nil ELSE finalErr
            /\ UNCHANGED errChan
  /\ waitVal' = [waitVal EXCEPT ![c] = finalErr']
  /\ waitPc' = [waitPc EXCEPT ![c] = "deferCancel"]
  /\ UNCHANGED <<concurrency, weaver, newErr, ctxDone, cancelled, wg, errOnce,
                 taskQueue, isClosed, workersIdle, workerPc, kinds, addPc,
                 addTask, addResult, addAfterWait, runs, waitRets, errSent,
                 sailVars, limiterVars>>

\* Line 212: the deferred function calls w.cancel().
WaitDeferCancel(c) ==
  /\ waitPc[c] = "deferCancel"
  /\ cancelled' = TRUE
  /\ waitPc' = [waitPc EXCEPT ![c] = "deferClose"]
  /\ UNCHANGED <<concurrency, weaver, newErr, ctxDone, wg, errOnce, errChan,
                 taskQueue, isClosed, finalErr, workersIdle, workerPc, kinds,
                 addPc, addTask, addResult, addAfterWait, runs, waitVal,
                 waitRets, errSent, sailVars, limiterVars>>

\* Line 218: close(w.errChan), and Wait returns the value fixed at line 231.
\* Closing a closed channel panics in the deferred function: the caller of
\* Wait gets the panic instead of a value.
WaitDeferClose(c) ==
  /\ waitPc[c] = "deferClose"
  /\ IF errChan.closed
       THEN /\ waitPc' = [waitPc EXCEPT ![c] = "panicked"]
            /\ UNCHANGED <<errChan, waitRets>>
       ELSE /\ waitPc' = [waitPc EXCEPT ![c] = "idle"]
            /\ errChan' = [errChan EXCEPT !.closed = TRUE]
            /\ waitRets' = waitRets \cup {<<"winner", waitVal[c]>>}
  /\ waitVal' = [waitVal EXCEPT ![c] = Nil]
  /\ UNCHANGED <<concurrency, weaver, newErr, ctxDone, cancelled, wg, errOnce,
                 taskQueue, isClosed, finalErr, workersIdle, workerPc, kinds,
                 addPc, addTask, addResult, addAfterWait, runs, errSent,
                 sailVars, limiterVars>>

Next ==
  \/ NewWeaver
  \/ WeaverCancel
  \/ WorkerRecv
  \/ WorkerQueueClosed
  \/ WorkerCancelled
  \/ \E n \in 1..Len(kinds) : WorkerExecute(n)
  \/ \E n \in 1..Len(kinds) : WorkerTaskFinish(n)
  \/ \E n \in 1..Len(kinds) : WorkerSendErr(n)
  \/ \E a \in Adders, t \in PoolTasks : AddCall(a, t)
  \/ \E a \in Adders : AddSend(a)
  \/ \E c \in Waiters : WaitCall(c)
  \/ \E c \in Waiters : WaitCas(c)
  \/ \E c \in Waiters : WaitRecv(c)
  \/ \E c \in Waiters : WaitReadFinal(c)
  \/ \E c \in Waiters : WaitCloseQueue(c)
  \/ \E c \in Waiters : WaitWg(c)
  \/ \E c \in Waiters : WaitSelect(c)
  \/ \E c \in Waiters : WaitDeferCancel(c)
  \/ \E c \in Waiters : WaitDeferClose(c)

Spec == Init /\ [][Next]_vars

\* The Go scheduler runs every goroutine that can take a step: each step of
\* a worker, of a pending Add and of a pending Wait is taken if it stays
\* possible.  Calling Add, calling Wait and cancelling the parent ctx are
\* up to the program that uses the pool: no fairness.  A task body returns
\* (WorkerTaskFinish) when its kind lets it: "wait" bodies return once they
\* can see the cancellation.
Fairness ==
  /\ WF_vars(WorkerRecv)
  /\ WF_vars(WorkerQueueClosed)
  /\ WF_vars(WorkerCancelled)
  /\ \A n \in 1..MaxAdds : WF_vars(n <= Len(kinds) /\ WorkerExecute(n))
  /\ \A n \in 1..MaxAdds : WF_vars(n <= Len(kinds) /\ WorkerTaskFinish(n))
  /\ \A n \in 1..MaxAdds : WF_vars(n <= Len(kinds) /\ WorkerSendErr(n))
  /\ \A a \in Adders : WF_vars(AddSend(a))
  /\ \A c \in Waiters : WF_vars(WaitCas(c))
  /\ \A c \in Waiters : WF_vars(WaitRecv(c))
  /\ \A c \in Waiters : WF_vars(WaitReadFinal(c))
  /\ \A c \in Waiters : WF_vars(WaitCloseQueue(c))
  /\ \A c \in Waiters : WF_vars(WaitWg(c))
  /\ \A c \in Waiters : WF_vars(WaitSelect(c))
  /\ \A c \in Waiters : WF_vars(WaitDeferCancel(c))
  /\ \A c \in Waiters : WF_vars(WaitDeferClose(c))

\* A pool whose tasks never fail: they return nil at once ("ok") or block
\* on <-ctx.Done() and return nil once the worker ctx is done ("wait", the
\* tasks of TestWeaver_ContextCancel).
DrainTasks == {"ok", "wait"}

DrainNext ==
  \/ NewWeaver
  \/ WeaverCancel
  \/ WorkerRecv
  \/ WorkerQueueClosed
  \/ WorkerCancelled
  \/ \E n \in 1..Len(kinds) : WorkerExecute(n)
  \/ \E n \in 1..Len(kinds) : WorkerTaskFinish(n)
  \/ \E a \in Adders, t \in DrainTasks : AddCall(a, t)
  \/ \E a \in Adders : AddSend(a)
  \/ \E c \in Waiters : WaitCall(c)
  \/ \E c \in Waiters : WaitCas(c)
  \/ \E c \in Waiters : WaitRecv(c)
  \/ \E c \in Waiters : WaitReadFinal(c)
  \/ \E c \in Waiters : WaitCloseQueue(c)
  \/ \E c \in Waiters : WaitWg(c)
  \/ \E c \in Waiters : WaitSelect(c)
  \/ \E c \in Waiters : WaitDeferCancel(c)
  \/ \E c \in Waiters : WaitDeferClose(c)

DrainSpec == Init /\ [][DrainNext]_vars /\ Fairness

\* One orchestration run of either kind: a Sail call, or the life of a
\* Weaver.
\* The Sail calls looked at next to a Weaver are those of at most
\* MaxTasks - 1 tasks.
WeaveInit ==
  \/ SailFairInit
  \/ Init

WeaveNext ==
  \/ sail_pc # "uncalled" /\ SailNext
  \/ sail_pc = "uncalled" /\ Next

WeaveSpec == WeaveInit /\ [][WeaveNext]_vars

\* ---------------------------------------------------------------- Limiter
\* limiter.go line 26: make(chan struct{}, maxConcurrency)
SemaphoreCap(m) == m

\* The requests that hold a slot of l.semaphore, and those whose wrapped
\* handler next.ServeHTTP is executing (limiter.go line 44).
Holding ==
  {r \in Requests : reqPc[r] \in {"serving", "release", "releasePanic"}}
Serving == {r \in Requests : reqPc[r] = "serving"}

LimiterInit ==
  /\ SailUnused
  /\ WeaverUnused
  /\ maxConcurrency \in 0..MaxLimit
  /\ limiter = "uncalled"
  /\ semaphore = 0
  /\ reqPc = [r \in Requests |-> "idle"]

\* limiter.go lines 18-28: NewLimiter(maxConcurrency) panics unless
\* maxConcurrency > 0.
NewLimiter ==
  /\ limiter = "uncalled"
  /\ limiter' = IF maxConcurrency <= 0 THEN "panicked" ELSE "live"
  /\ UNCHANGED <<maxConcurrency, semaphore, reqPc, sailVars, weaverVars>>

\* limiter.go line 34: the handler Wrap returned is called for request r.
LimiterRequest(r) ==
  /\ limiter = "live"
  /\ reqPc[r] = "idle"
  /\ reqPc' = [reqPc EXCEPT ![r] = "acquire"]
  /\ UNCHANGED <<maxConcurrency, limiter, semaphore, sailVars, weaverVars>>

\* limiter.go line 36: l.semaphore <- struct{}{} blocks while the channel
\* is full; then the release is deferred and next.ServeHTTP is entered.
LimiterAcquire(r) ==
  /\ reqPc[r] = "acquire"
  /\ semaphore < SemaphoreCap(maxConcurrency)
  /\ semaphore' = semaphore + 1
  /\ reqPc' = [reqPc EXCEPT ![r] = "serving"]
  /\ UNCHANGED <<maxConcurrency, limiter, sailVars, weaverVars>>

\* Variant of LimiterAfterServe: the release is a plain statement after
\* next.ServeHTTP, which a panic skips.
LimiterAfterServe_NoDefer(panics) ==
  IF panics THEN "panicked" ELSE "release"

\* limiter.go lines 39-41: the deferred function runs when next.ServeHTTP
\* returns and when it panics.
LimiterAfterServe(panics) ==
  IF panics THEN "releasePanic" ELSE "release"

\* limiter.go line 44: next.ServeHTTP(w, r) returns or panics.
LimiterServe(r, panics) ==
  /\ reqPc[r] = "serving"
  /\ reqPc' = [reqPc EXCEPT ![r] = LimiterAfterServe(panics)]
  /\ UNCHANGED <<maxConcurrency, limiter, semaphore, sailVars, weaverVars>>

\* limiter.go line 40: <-l.semaphore; the handler then returns, or the
\* panic goes on to the caller of the handler.
LimiterRelease(r) ==
  /\ reqPc[r] \in {"release", "releasePanic"}
  /\ semaphore > 0
  /\ semaphore' = semaphore - 1
  /\ reqPc' = [reqPc EXCEPT ![r] =
        IF reqPc[r] = "release" THEN "done" ELSE "panicked"]
  /\ UNCHANGED <<maxConcurrency, limiter, sailVars, weaverVars>>

LimiterNext ==
  \/ NewLimiter
  \/ \E r \in Requests : LimiterRequest(r)
  \/ \E r \in Requests : LimiterAcquire(r)
  \/ \E r \in Requests, panics \in BOOLEAN : LimiterServe(r, panics)
  \/ \E r \in Requests : LimiterRelease(r)

LimiterSpec == LimiterInit /\ [][LimiterNext]_vars

\* ------------------------------------------------------- claims about Sail
SailReturned == sail_pc = "returned"
SailIdx == 1..Len(tasks)
SailAllOk == \A k \in SailIdx : tasks[k] = "ok"
\* Task k is the only task of the list that does not return nil.
SailOnlyFailure(k) == \A j \in SailIdx \ {k} : tasks[j] = "ok"

\* C3: when ctx is already cancelled at the call, Sail returns the
\* cancellation failure (never nil) and no task body is executed, for every
\* (non-empty) task list.
C3_EarlyCancelReturnsCanceled ==
  (sail_ctxAtCall /\ Len(tasks) > 0) =>
    /\ \A k \in SailIdx : sail_runs[k] = 0
    /\ SailReturned => sail_result = Canceled

\* C4: a task failure that is in the failure slot, written while ctx was
\* not cancelled, is what Sail returns, also when ctx is cancelled before
\* the final select resolves.
C4_RecordedFailureWins ==
  (SailReturned /\ sail_slotAtSelect # <<>> /\ ~sail_ctxAtSend) =>
    sail_result = sail_slotAtSelect[1]

\* C5: when Sail returns nil, every task of the list was dispatched, ran to
\* completion and returned success.
C5_NilMeansAllRan ==
  (SailReturned /\ sail_result = Nil) =>
    \A k \in SailIdx :
      /\ sail_taskPc[k] = "done"
      /\ sail_runs[k] = 1
      /\ tasks[k] = "ok"

\* C6: when every task returns success and ctx is never cancelled, Sail
\* returns nil and every task body has run exactly once (never twice, in
\* any state; never zero times once Sail has returned).
C6_AllSucceed ==
  SailAllOk =>
    /\ \A k \in SailIdx : sail_runs[k] <= 1
    /\ (SailReturned /\ ~sail_ctxDone) =>
          /\ sail_result = <<"nil", 0>>
          /\ \A k \in SailIdx : sail_runs[k] = 1

C6_Witness ==
  /\ SailReturned /\ ~sail_ctxDone /\ SailAllOk
  /\ Len(tasks) >= 3
  /\ \A k \in SailIdx : sail_runs[k] = 1

\* C7: with exactly one task returning failure E, all others returning
\* success and ctx never cancelled, Sail returns exactly E.
C7_FirstFailure ==
  \A k \in SailIdx :
    (tasks[k] = "err" /\ SailOnlyFailure(k) /\ SailReturned
       /\ ~sail_ctxDone)
      => sail_result = <<"task failed", k>>

C7_Witness ==
  /\ SailReturned /\ ~sail_ctxDone
  /\ Len(tasks) >= 3
  /\ tasks[2] = "err" /\ SailOnlyFailure(2)
  /\ sail_result = <<"task failed", 2>>
  /\ \E j \in SailIdx : sail_taskPc[j] # "done"

\* C8: a panic in a task never leaves the task's goroutine; it is written
\* to the failure slot as "panic recovered: " followed by the payload, and
\* with no other failing task and no cancellation Sail returns it.
C8_PanicContained ==
  /\ \A k \in SailIdx : sail_taskPc[k] # "crashed"
  /\ \A k \in SailIdx :
       (tasks[k] = "panic" /\ sail_taskPc[k] \in {"exit", "done"}) =>
          /\ sail_sent # <<>>
          /\ SailOnlyFailure(k) =>
                sail_sent = << <<"panic recovered: ", k>> >>
  /\ \A k \in SailIdx :
       (tasks[k] = "panic" /\ SailOnlyFailure(k) /\ SailReturned
          /\ ~sail_ctxDone)
         => sail_result = <<"panic recovered: ", k>>

C8_Witness ==
  /\ SailReturned /\ ~sail_ctxDone
  /\ Len(tasks) >= 3
  /\ tasks[2] = "panic" /\ SailOnlyFailure(2)
  /\ sail_result = <<"panic recovered: ", 2>>

\* ----------------------------------------------------- claims about Weaver
WinnerReturned == \E r \in waitRets : r[1] = "winner"
Accepted == {n \in 1..Len(kinds) : addResult[n] = <<"nil", 0>>}

\* C1: every Wait call on a Weaver returns the identical value: no call
\* returns a failure while another returns nil, no two calls return
\* different failures.
C1_WaitIdentical ==
  \A r1 \in waitRets : \A r2 \in waitRets : r1[2] = r2[2]

C1_Witness ==
  /\ {<<"winner", <<"task failed", 1>> >>, <<"loser", <<"task failed", 1>> >>}
       \subseteq waitRets
  /\ Len(kinds) >= 2

\* C2: once a task has failed or panicked and its failure is recorded in
\* the failure slot, every Wait call returns that first recorded failure.
C2_FailureNeverLost ==
  \A r \in waitRets : errSent # <<>> => r[2] = errSent[1]

\* C9: at no time are more than concurrency task bodies executing.
C9_ConcurrencyCeiling ==
  Cardinality({n \in 1..Len(kinds) : workerPc[n] = "running"})
    <= (IF concurrency > 0 THEN concurrency ELSE 0)

C9_Witness ==
  /\ concurrency > 0
  /\ Cardinality({n \in 1..Len(kinds) : workerPc[n] = "running"}) = concurrency
  /\ taskQueue.buf # <<>>

\* C10: with a parent ctx that never fires, every task for which Add
\* returned nil is executed exactly once (never twice, in any state) and has
\* finished when the winning Wait call has returned.
C10_AcceptedRunOnce ==
  /\ \A n \in 1..Len(kinds) : runs[n] <= 1
  /\ (WinnerReturned /\ ~ctxDone) =>
        \A n \in Accepted : runs[n] = 1 /\ n \in Finished

C10_Witness ==
  /\ WinnerReturned /\ ~ctxDone
  /\ Len(kinds) >= 2
  /\ Accepted = 1..Len(kinds)
  /\ \A n \in Accepted : runs[n] = 1 /\ n \in Finished

InQueue(n) == \E i \in 1..Len(taskQueue.buf) : taskQueue.buf[i] = n
NeverEnqueued(n) == ~InQueue(n) /\ workerPc[n] = "none" /\ runs[n] = 0

\* C11: an Add call that starts after a Wait call has returned gets the
\* error "weave: weaver is closed" at once: it is never left pending on the
\* send, no panic is involved, and its task is neither put in the queue nor
\* taken or executed by a worker.
C11_AddAfterWaitFails ==
  \A n \in 1..Len(kinds) : addAfterWait[n] =>
    /\ addResult[n] = ClosedErr
    /\ NeverEnqueued(n)
\* An Add was called after a Wait had returned, with the workers gone.
C11_Witness ==
  \E n \in 1..Len(kinds) :
    /\ addAfterWait[n]
    /\ addResult[n] = ClosedErr
    /\ wg = 0

AddOutcomes == {Pending, Nil, ClosedErr, ClosedPanicErr}
C12_NoEscape ==
  \A n \in 1..Len(kinds) :
    /\ addResult[n] \in AddOutcomes
    /\ addResult[n] \in {Pending, ClosedErr, ClosedPanicErr} => NeverEnqueued(n)
\* C12: an Add that races with Wait ends in one of two ways: the task is in
\* the queue and Add returns nil, or Add returns one of the two closed
\* errors and the task was never put in the queue; no panic reaches the
\* caller; and an Add that is at its send once Wait has taken the closed
\* flag does return.
C12_AddRacingWait ==
  /\ []C12_NoEscape
  /\ \A a \in Adders : (addPc[a] = "send" /\ isClosed) ~> (addPc[a] = "idle")
\* An Add passed the check of the closed flag, Wait closed the queue, and
\* the send panicked and was recovered.
C12_Witness ==
  \E n \in 1..Len(kinds) : addResult[n] = ClosedPanicErr /\ ~addAfterWait[n]

Held == {n \in 1..Len(kinds) :
           workerPc[n] \in {"execute", "running", "sendErr", "crashed"}}
\* C13: NewWeaver with concurrency <= 0 returns a nil pool and the
\* configuration error and no worker exists; with concurrency C > 0 it
\* returns a pool and no error, the workers (blocked in the loop, holding a
\* task, or gone after w.wg.Done()) are C in all, all C blocked in the loop
\* before the pool is used, and the queue never holds more than C tasks.
C13_NewWeaver ==
  /\ weaver = "nil" =>
        /\ concurrency <= 0
        /\ newErr = ConfigErr
        /\ workersIdle = 0 /\ wg = 0
  /\ weaver = "live" =>
        /\ concurrency > 0
        /\ newErr = Nil
        /\ workersIdle + Cardinality(Held) + (concurrency - wg) = concurrency
        /\ (kinds = <<>> /\ ~isClosed /\ ~ctxDone) =>
              (workersIdle = concurrency /\ wg = concurrency)
        /\ Len(taskQueue.buf) <= concurrency
\* A pool of MaxConc workers, all of them still blocked in the loop, whose
\* queue holds MaxConc tasks.
C13_Witness ==
  /\ weaver = "live"
  /\ concurrency = MaxConc
  /\ workersIdle = concurrency
  /\ Len(taskQueue.buf) = concurrency

WinnerPath == {"closeQueue", "wgWait", "select", "deferCancel", "deferClose"}
Winners == {c \in Waiters : waitPc[c] \in WinnerPath}
\* C14: at most one Wait caller is ever past the compare-and-swap: never
\* two at a time, none after the winner returned; no caller panics, which
\* is what a second close(w.taskQueue) or close(w.errChan) would do.
C14_SingleWinner ==
  /\ Cardinality(Winners) <= 1
  /\ Winners # {} => ~WinnerReturned
  /\ \A c \in Waiters : waitPc[c] # "panicked"
  /\ taskQueue.closed => isClosed
  /\ errChan.closed => (taskQueue.closed /\ Winners = {})
\* Two callers went for the compare-and-swap; one won and is shutting the
\* pool down, the other lost.
C14_Witness ==
  \E c1 \in Waiters, c2 \in Waiters :
    /\ waitPc[c1] = "wgWait"
    /\ waitPc[c2] = "loseRecv"

\* C15 (as stated): with the parent ctx never cancelled and tasks that
\* return once they can see the cancellation, a Wait that waits for the
\* workers returns.
C15_WaitUnblocksTasks ==
  ([]~ctxDone) =>
    ((\E c \in Waiters : waitPc[c] = "wgWait") ~> WinnerReturned)
\* C15 (amended): Wait calls w.cancel() only when every worker has exited:
\* while a worker lives or a task body runs, the only cancellation a task
\* can see is the one of the parent ctx.
C15_CancelAfterWorkers ==
  cancelled => (wg = 0 /\ Executing = {} /\ workersIdle = 0)
\* Wait waits for the workers while a task blocks on <-ctx.Done() and
\* nothing has cancelled the worker ctx.
C15_Witness ==
  /\ \E c \in Waiters : waitPc[c] = "wgWait"
  /\ \E n \in Executing : kinds[n] = "wait"
  /\ ~WorkerCtxIsDone

\* C16: when the parent ctx is cancelled before Wait completes and no
\* failure was written to w.errChan, the value the closing Wait returns is
\* ctx.Err().
C16_CancelReturnsCtxErr ==
  \A c \in Waiters :
    (waitPc[c] = "deferClose" /\ ctxDone /\ errSent = <<>>) =>
      waitVal[c] = Canceled

\* C17: when ctx is cancelled while Sail is at work (some task was started
\* before, some task was skipped after) and no failure is ever recorded,
\* Sail returns ctx.Err(), and the tasks it skipped are never started.
C17_CancelDuringSail ==
  /\ \A k \in SailIdx : sail_taskPc[k] = "skipped" => sail_runs[k] = 0
  /\ ( /\ SailReturned
       /\ ~sail_ctxAtCall
       /\ sail_sent = <<>>
       /\ \E k \in SailIdx : sail_runs[k] > 0
       /\ \E k \in SailIdx : sail_taskPc[k] = "skipped" )
     => sail_result = Canceled

\* C18: with maxConcurrency M > 0 at most M wrapped handlers execute at a
\* time; the slots taken are exactly those of the requests between the
\* send of line 36 and the deferred receive (a handler that returned or
\* panicked holds none); a request at the send cannot go on while M
\* handlers execute and can go on as soon as a slot is free.
C18_LimiterBound ==
  limiter = "live" =>
    /\ maxConcurrency > 0
    /\ Cardinality(Serving) <= maxConcurrency
    /\ semaphore = Cardinality(Holding)
    /\ \A r \in Requests : reqPc[r] = "acquire" =>
          /\ Cardinality(Serving) = maxConcurrency => ~ENABLED LimiterAcquire(r)
          /\ semaphore < maxConcurrency => ENABLED LimiterAcquire(r)
\* A handler panicked and gave its slot back, another request took it and
\* is executing, a third one is blocked at the send.
C18_Witness ==
  /\ limiter = "live"
  /\ \E r1 \in Requests, r2 \in Requests, r3 \in Requests :
       /\ reqPc[r1] = "panicked"
       /\ reqPc[r2] = "serving"
       /\ reqPc[r3] = "acquire"
  /\ Cardinality(Serving) = maxConcurrency

\* C19: when any Wait call has returned, every worker has exited, no task
\* body is executing and the closing call has closed w.errChan.
C19_WaitReturnsAfterWorkers ==
  waitRets # {} => (wg = 0 /\ Executing = {} /\ errChan.closed)

\* C20: once the worker ctx is done no task body is entered any more: a
\* worker that took a task from the queue puts it aside without calling
\* it; and a body that was entered before goes on until it ends by itself.
C20_NoStartAfterCancel ==
  [][\A n \in 1..Len(kinds) :
       /\ (ctxDone \/ cancelled) => runs'[n] = runs[n]
       /\ (workerPc[n] = "execute" /\ (ctxDone \/ cancelled)) =>
             workerPc'[n] \in {"execute", "none"}
       /\ workerPc[n] = "running" =>
             workerPc'[n] \in {"running", WorkerAfterBody(kinds[n])}]_vars
\* The parent ctx is cancelled while one accepted task is executing and
\* another one was taken from the queue and put aside.
C20_Witness ==
  /\ ctxDone
  /\ \E n \in 1..Len(kinds), m \in 1..Len(kinds) :
       /\ addResult[n] = Nil /\ runs[n] = 0 /\ NeverEnqueued(n)
       /\ m \in Executing

\* The task goroutines of Sail and the workers of a Weaver that are at the
\* write of the failure slot.
SailWriters == {k \in SailIdx : sail_taskPc[k] = "sendErr"}
WeaverWriters == {n \in 1..Len(kinds) : workerPc[n] = "sendErr"}
\* The tasks that failed or panicked and whose sendErr call is over.
SailFailed ==
  {k \in SailIdx : tasks[k] \in {"err", "panic"}
                     /\ sail_taskPc[k] \in {"exit", "done"}}
WeaverFailed ==
  {n \in 1..Len(kinds) : kinds[n] \in {"err", "panic"}
                           /\ runs[n] > 0 /\ workerPc[n] = "none"}

\* C21: in a Sail call and in a Weaver at most one value is ever written to
\* the failure channel; what the channel holds is that value or nothing;
\* and once a task's sendErr call is over a value has been written, its own
\* or an earlier one.
C21_WriteOnce ==
  /\ Len(sail_sent) <= 1
  /\ Len(errSent) <= 1
  /\ sail_errChan.buf \in {<<>>, sail_sent}
  /\ errChan.buf \in {<<>>, errSent}
  /\ SailFailed # {} => Len(sail_sent) = 1
  /\ WeaverFailed # {} => Len(errSent) = 1
\* Two tasks of a Weaver failed, the write of the second one was dropped.
C21_Witness ==
  /\ Cardinality(WeaverFailed) >= 2
  /\ Len(errSent) = 1

\* C26: a task at the write of the failure slot is never blocked (it is the
\* first writer and the channel is empty, or the once has fired) and never
\* finds the channel closed; the channel is closed only when every task
\* goroutine of Sail is done, or every worker of the Weaver has exited; no
\* goroutine ends on a send on a closed channel.  This holds on after Sail
\* has returned.
C26_WriteNeverBlocks ==
  /\ \A k \in SailWriters :
        /\ ~sail_errChan.closed
        /\ ~sail_once => Len(sail_errChan.buf) < ErrChanCap
  /\ \A n \in WeaverWriters :
        /\ ~errChan.closed
        /\ ~errOnce => Len(errChan.buf) < ErrChanCap
  /\ sail_errChan.closed =>
        \A k \in SailIdx : sail_taskPc[k] \in {"skipped", "done"}
  /\ errChan.closed =>
        (wg = 0 /\ workersIdle = 0 /\ Held = {})
  /\ \A k \in SailIdx : sail_taskPc[k] # "crashed"
  /\ \A n \in 1..Len(kinds) : workerPc[n] # "crashed"
\* Sail has returned and a task goroutine writes its failure afterwards.
C26_Witness ==
  /\ SailReturned
  /\ sail_result = Canceled
  /\ sail_sent # <<>>
  /\ sail_ctxAtSend
  /\ sail_slotAtSelect = <<>>

C22_NotInterrupted ==
  [][/\ sail_ctxDone' # sail_ctxDone => sail_pc' = sail_pc
     /\ \A k \in SailIdx :
          sail_taskPc[k] = "running" =>
            sail_taskPc'[k] \in {"running", SailAfterBody(tasks[k])}]_vars
\* C22: once a task of Sail has failed or panicked, Sail returns, whatever
\* the other tasks do (a "wait" task does not end while ctx is not
\* cancelled); no step of Sail cancels ctx, and a body that is running
\* goes on until it ends by itself, also after Sail returned.
C22_FailureReturnsEarly ==
  /\ C22_NotInterrupted
  /\ (SailWriters # {}) ~> SailReturned
\* Sail returned a task's failure while another task is still running and
\* ctx is not cancelled.
C22_Witness ==
  /\ SailReturned
  /\ sail_sent # <<>>
  /\ sail_result = sail_sent[1]
  /\ ~sail_ctxDone
  /\ \E k \in SailIdx : sail_taskPc[k] = "running" /\ tasks[k] = "wait"

\* C23: a panic of a task never ends a worker: no worker leaves on a
\* panic; while the queue is open and the worker ctx is not done the
\* workers alive are C; and when the first failure written is the
\* "panic recovered: " one, every Wait call returns it.
C23_WorkerSurvivesPanic ==
  /\ \A n \in 1..Len(kinds) : workerPc[n] # "crashed"
  /\ (weaver = "live" /\ ~taskQueue.closed /\ ~WorkerCtxIsDone) =>
        (workersIdle + Cardinality(Held) = concurrency /\ wg = concurrency)
  /\ \A r \in waitRets :
        (errSent # <<>> /\ errSent[1][1] = "panic recovered: ") =>
          r[2] = errSent[1]

\* C24: the queue never holds more than C tasks; an Add at its send on an
\* open queue can go on exactly when the queue holds fewer than C tasks:
\* it is blocked while the queue holds C and released by a dequeue.
C24_QueueBound ==
  weaver = "live" =>
    /\ Len(taskQueue.buf) <= concurrency
    /\ \A a \in Adders : (addPc[a] = "send" /\ ~taskQueue.closed) =>
          (ENABLED AddSend(a) <=> Len(taskQueue.buf) < concurrency)
\* An Add is blocked at its send: the open queue holds C tasks.
C24_Witness ==
  /\ weaver = "live"
  /\ ~taskQueue.closed
  /\ Len(taskQueue.buf) = concurrency
  /\ \E a \in Adders : addPc[a] = "send"

\* C25: a failure written to w.errChan does not cancel the worker ctx,
\* close the queue or stop a worker; and, the parent ctx not being
\* cancelled, when a Wait call has returned after a failure every task Add
\* accepted has been executed and is over.
C25_FailureOnlySlot ==
  /\ (errSent # <<>> /\ ~isClosed /\ ~ctxDone) =>
        /\ ~cancelled
        /\ ~taskQueue.closed
        /\ workersIdle + Cardinality(Held) = concurrency
  /\ (errSent # <<>> /\ waitRets # {} /\ ~ctxDone) =>
        \A n \in Accepted : runs[n] = 1 /\ n \notin Executing
====
